---- MODULE Spec2Model ----
(***************************************************************************)
(* A model of text2svg's text-layout core: the character-count line        *)
(* wrapper (WidthLineIterator, split_line), the pixel-width line wrapper   *)
(* (PixelWidthLineIterator, split_line_by_pixel_width,                     *)
(* wrap_text_by_pixel_width, calculate_text_width) of src/src/utils.rs and *)
(* the OpenType feature set of FontConfig in src/src/font.rs.              *)
(*                                                                         *)
(* A Rust String is a sequence of Unicode scalars.  Each scalar is one of  *)
(* the names of Alphabet; Utf8Len gives its encoded length, so that byte   *)
(* offsets (char_indices, slicing, str::len) and scalar counts             *)
(* (chars().count()) are different numbers, as they are in the program.    *)
(***************************************************************************)
EXTENDS Integers, Sequences, FiniteSets, TLC

\* ------------------------------------------------------------------------
\* Bounds of the model
\* ------------------------------------------------------------------------

\* longest source text given to WidthLineIterator and to split_line
MaxSrcLen == 4
\* largest character budget (max_width)
MaxWidth == 3
\* longest text given to split_line_by_pixel_width and wrap_text_by_pixel_width
MaxPixText == 5
\* longest source text given to PixelWidthLineIterator
MaxPixSrc == 4
\* largest pixel budget (max_pixel_width)
MaxPixelWidth == 4
\* most tokens in a feature string given to set_features_from_string
MaxTokens == 2
\* how far beyond the fallback's character budget the long texts' runs go
MaxOver == 2
\* the most pieces a face's full name is made of
MaxNameParts == 3
\* the most faces a font family has
MaxFaces == 3

\* ------------------------------------------------------------------------
\* Scalars and strings
\* ------------------------------------------------------------------------

\* "a": U+0061; "E9": U+00E9 (two bytes, not whitespace); "SP": U+0020;
\* "CR": U+000D; "LF": U+000A; "U3000": ideographic space (three bytes,
\* Unicode White_Space but not ASCII whitespace).
Alphabet == {"a", "E9", "SP", "CR", "LF", "U3000"}

\* char::is_ascii_whitespace
is_ascii_whitespace(c) == c \in {"SP", "CR", "LF"}

\* char::is_whitespace (Unicode White_Space), used by trim_end/trim_start
\* and split_whitespace
is_whitespace(c) == c \in {"SP", "CR", "LF", "U3000"}

\* encoded length of a scalar in UTF-8
Utf8Len(c) == IF c = "E9" THEN 2 ELSE IF c = "U3000" THEN 3 ELSE 1

\* the strings over S of at most n scalars
RECURSIVE StringsUpTo(_, _)
StringsUpTo(S, n) ==
    IF n = 0 THEN {<<>>}
    ELSE LET shorter == StringsUpTo(S, n - 1)
         IN  shorter \cup {Append(s, c) : s \in {t \in shorter : Len(t) = n - 1}, c \in S}

\* str::len: the length in bytes
RECURSIVE ByteLen(_)
ByteLen(s) == IF s = <<>> THEN 0 ELSE Utf8Len(Head(s)) + ByteLen(Tail(s))

\* chars().count(): the length in scalars
chars_count(s) == Len(s)

\* the byte offset at which scalar number k (from 0) starts
ByteOffset(s, k) == ByteLen(SubSeq(s, 1, k))

\* char_indices().nth(n): the byte offset of scalar n, or -1 for None
char_indices_nth(s, n) == IF n < Len(s) THEN ByteOffset(s, n) ELSE -1

\* the number of scalars that start before byte offset b
ScalarsBefore(s, b) == Cardinality({k \in 0..(Len(s) - 1) : ByteOffset(s, k) < b})

\* &s[..b] and &s[b..] for a byte offset b on a scalar boundary
SliceTo(s, b) == SubSeq(s, 1, ScalarsBefore(s, b))
SliceFrom(s, b) == SubSeq(s, ScalarsBefore(s, b) + 1, Len(s))

\* str::trim_end
RECURSIVE trim_end(_)
trim_end(s) ==
    IF s = <<>> THEN s
    ELSE IF is_whitespace(s[Len(s)]) THEN trim_end(SubSeq(s, 1, Len(s) - 1))
    ELSE s

\* str::trim_start
RECURSIVE trim_start(_)
trim_start(s) ==
    IF s = <<>> THEN s
    ELSE IF is_whitespace(Head(s)) THEN trim_start(Tail(s))
    ELSE s

\* line.trim_end_matches(['\r', '\n'])
RECURSIVE trim_end_crlf(_)
trim_end_crlf(s) ==
    IF s = <<>> THEN s
    ELSE IF s[Len(s)] \in {"CR", "LF"} THEN trim_end_crlf(SubSeq(s, 1, Len(s) - 1))
    ELSE s

\* BufRead::read_line: the bytes up to and including the first LF, or all
\* that is left; <<>> is Ok(0), end of file
FirstLF(s) == IF \E i \in 1..Len(s) : s[i] = "LF"
              THEN CHOOSE i \in 1..Len(s) : s[i] = "LF" /\ \A j \in 1..(i - 1) : s[j] # "LF"
              ELSE Len(s)
read_line(s) == SubSeq(s, 1, FirstLF(s))
after_read_line(s) == SubSeq(s, FirstLF(s) + 1, Len(s))


\* ------------------------------------------------------------------------
\* State
\* ------------------------------------------------------------------------

VARIABLES
    \* which part of the program the behaviour exercises
    mode,
    \* WidthLineIterator / PixelWidthLineIterator
    src,            \* the text the reader was opened on
    reader,         \* what the reader has not yet returned
    max_width,      \* WidthLineIterator.max_width
    buffer,         \* the leftover part of a line
    out,            \* the lines next() has returned so far, in order
    done,           \* next() has returned None
    last,           \* the branch the last next() took and the line it split
    \* split_line called on its own
    sl_line, sl_width, sl_result,
    \* FontConfig as the width measurement reads it, and the pixel budget
    faces,            \* FontConfig.faces: style -> loaded face
    letter_space,     \* FontConfig.letter_space, in pixels per gap
    font_style,       \* the style asked for
    max_pixel_width,  \* the pixel budget
    \* split_line_by_pixel_width and wrap_text_by_pixel_width called on src
    px_split, px_wrap,
    \* the split point split_line_by_pixel_width computed on src, and from what
    px_point,
    \* calculate_text_width called on src
    px_width,
    \* FontConfig::new on a font family, and the two style functions called on
    \* their own
    family,           \* font_family.fonts(): the family's face handles, in order
    built,            \* what FontConfig::new returned
    full_name,        \* the argument of font_full_name_to_weight
    weight,           \* the argument of approximate_font_weight
    name_style,       \* what font_full_name_to_weight returned
    weight_style,     \* what approximate_font_weight returned
    \* FontConfig's OpenType features
    feature_map,      \* FontConfig.feature_map: tag -> Feature
    features,         \* FontConfig.features: the list handed to the shaping engine
    fcall             \* the last feature call: its arguments, the state before, its result

iterVars == <<src, reader, max_width, buffer, out, done, last>>
splitVars == <<sl_line, sl_width, sl_result>>
fontVars == <<faces, letter_space, font_style, max_pixel_width>>
pxVars == <<px_split, px_wrap, px_point, px_width>>
faceVars == <<family, built, full_name, weight, name_style, weight_style>>
featVars == <<feature_map, features, fcall>>
vars == <<mode, iterVars, splitVars, fontVars, pxVars, featVars, faceVars>>

NoLast == [op |-> "none", input |-> <<>>, reads |-> 0, buffer_before |-> <<>>]

IdleIter ==
    /\ src = <<>> /\ reader = <<>> /\ max_width = 0 /\ buffer = <<>>
    /\ out = <<>> /\ done = FALSE /\ last = NoLast
IdleSplit == sl_line = <<>> /\ sl_width = 0 /\ sl_result = <<>>
IdleFont ==
    /\ faces = <<>> /\ letter_space = 0 /\ font_style = "Regular"
    /\ max_pixel_width = 0
IdlePx == px_split = <<>> /\ px_wrap = <<>> /\ px_point = <<>> /\ px_width = <<>>
IdleFace ==
    /\ family = <<>> /\ built = <<>> /\ full_name = <<>> /\ weight = 0
    /\ name_style = <<>> /\ weight_style = <<>>

\* Feature::from_str(tag) for a plain tag, and Feature::new(tag, value, ..)
Feature(tag, value) == [tag |-> tag, value |-> value]

\* the feature map FontConfig::new builds (font.rs 204-208)
DefaultFeatureMap ==
    LET tags == {<<"k", "e", "r", "n">>, <<"l", "i", "g", "a">>,
                 <<"c", "a", "l", "t">>, <<"c", "l", "i", "g">>}
    IN  [tg \in tags |-> Feature(tg, 1)]

\* self.feature_map.values().cloned().collect(): the features of the map; the
\* order of a HashMap's values is not fixed, so the list is kept as a set
map_values(m) == {m[tg] : tg \in DOMAIN m}

NoCall == [op |-> "none"]
DefaultFeatures ==
    /\ feature_map = DefaultFeatureMap
    /\ features = map_values(DefaultFeatureMap)
    /\ fcall = NoCall

\* ------------------------------------------------------------------------
\* split_line (utils.rs 205-237)
\* ------------------------------------------------------------------------

\* the byte offset of the last ASCII whitespace scalar of s, or -1 for None:
\* s.char_indices().rev().find(|&(_, c)| c.is_ascii_whitespace()).map(|(i, _)| i)
rfind_ascii_whitespace(s) ==
    LET hits == {k \in 1..Len(s) : is_ascii_whitespace(s[k])}
    IN  IF hits = {} THEN -1
        ELSE ByteOffset(s, (CHOOSE k \in hits : \A j \in hits : j <= k) - 1)

\* the byte offset of scalar number max_width
split_char_index(line, width) ==
    IF char_indices_nth(line, width) # -1 THEN char_indices_nth(line, width)
    ELSE IF chars_count(line) > width THEN ByteLen(line)
    ELSE 0

\* a split_line that measures the budget in bytes, not in scalars
split_line_bytes(line, width) ==
    IF ByteLen(line) <= width THEN <<trim_end(line), <<>>>>
    ELSE LET potential_split_point == SliceTo(line, width)
             wrap_index == rfind_ascii_whitespace(potential_split_point)
         IN  IF wrap_index # -1
             THEN <<trim_end(SliceTo(potential_split_point, wrap_index)),
                    trim_start(SliceFrom(line, wrap_index))>>
             ELSE <<potential_split_point, trim_start(SliceFrom(line, width))>>

\* a split_line that drops the scalar it breaks at
split_line_lossy(line, width) ==
    IF chars_count(line) <= width THEN <<trim_end(line), <<>>>>
    ELSE LET potential_split_point == SliceTo(line, split_char_index(line, width))
             wrap_index == rfind_ascii_whitespace(potential_split_point)
         IN  IF wrap_index # -1
             THEN <<trim_end(SliceTo(potential_split_point, wrap_index)),
                    trim_start(SliceFrom(line, wrap_index))>>
             ELSE <<potential_split_point,
                    trim_start(SliceFrom(line, split_char_index(line, width) + 1))>>

\* a split_line that wraps at the first whitespace of the prefix, not the last
split_line_first_ws(line, width) ==
    IF chars_count(line) <= width THEN <<trim_end(line), <<>>>>
    ELSE LET potential_split_point == SliceTo(line, split_char_index(line, width))
             hits == {k \in 1..Len(potential_split_point) :
                        is_ascii_whitespace(potential_split_point[k])}
             wrap_index == IF hits = {} THEN -1
                           ELSE ByteOffset(line, (CHOOSE k \in hits : \A j \in hits : k <= j) - 1)
         IN  IF wrap_index # -1
             THEN <<trim_end(SliceTo(potential_split_point, wrap_index)),
                    trim_start(SliceFrom(line, wrap_index))>>
             ELSE <<potential_split_point,
                    trim_start(SliceFrom(line, split_char_index(line, width)))>>

\* split_line(line, max_width) -> (first_part, second_part)
split_line(line, width) ==
    IF chars_count(line) <= width THEN <<trim_end(line), <<>>>>
    ELSE LET potential_split_point == SliceTo(line, split_char_index(line, width))
             wrap_index == rfind_ascii_whitespace(potential_split_point)
         IN  IF wrap_index # -1
             THEN <<trim_end(SliceTo(potential_split_point, wrap_index)),
                    trim_start(SliceFrom(line, wrap_index))>>
             ELSE <<potential_split_point,
                    trim_start(SliceFrom(line, split_char_index(line, width)))>>

\* ------------------------------------------------------------------------
\* WidthLineIterator (utils.rs 77-133)
\* ------------------------------------------------------------------------

\* the longest run of next() calls the model follows
OutCap == MaxSrcLen + 2

\* WidthLineIterator::new(reader, max_width) over any text and budget
InitChar ==
    /\ mode = "char"
    /\ src \in StringsUpTo(Alphabet, MaxSrcLen)
    /\ reader = src
    /\ max_width \in 0..MaxWidth
    /\ buffer = <<>>
    /\ out = <<>>
    /\ done = FALSE
    /\ last = NoLast
    /\ IdleSplit /\ IdleFont /\ IdlePx /\ DefaultFeatures /\ IdleFace

\* a next() that emits a fitting line without removing its line ending
WidthNextKeepEol ==
    /\ mode = "char" /\ ~done /\ Len(out) < OutCap
    /\ IF chars_count(buffer) > max_width
       THEN /\ out' = Append(out, split_line(buffer, max_width)[1])
            /\ buffer' = split_line(buffer, max_width)[2]
            /\ last' = [op |-> "split_buffer", input |-> buffer, reads |-> 0,
                        buffer_before |-> buffer]
            /\ UNCHANGED <<reader, done>>
       ELSE IF buffer # <<>>
       THEN /\ out' = Append(out, buffer)
            /\ buffer' = <<>>
            /\ last' = [op |-> "drain", input |-> <<>>, reads |-> 0,
                        buffer_before |-> buffer]
            /\ UNCHANGED <<reader, done>>
       ELSE IF read_line(reader) = <<>>
       THEN /\ done' = TRUE
            /\ last' = [op |-> "eof", input |-> <<>>, reads |-> 1,
                        buffer_before |-> buffer]
            /\ UNCHANGED <<reader, buffer, out>>
       ELSE LET trimmed_line == trim_end_crlf(read_line(reader))
            IN  /\ reader' = after_read_line(reader)
                /\ IF chars_count(trimmed_line) > max_width
                   THEN /\ out' = Append(out, split_line(trimmed_line, max_width)[1])
                        /\ buffer' = split_line(trimmed_line, max_width)[2]
                        /\ last' = [op |-> "read_split", input |-> trimmed_line,
                                    reads |-> 1, buffer_before |-> buffer]
                   ELSE /\ out' = Append(out, read_line(reader))
                        /\ buffer' = buffer
                        /\ last' = [op |-> "read_fit", input |-> <<>>, reads |-> 1,
                                    buffer_before |-> buffer]
                /\ UNCHANGED done
    /\ UNCHANGED <<mode, src, max_width, splitVars, fontVars, pxVars, featVars, faceVars>>

\* a next() that, when its buffer fits, emits it and reads the next line into
\* the buffer in the same step
WidthNextReadAhead ==
    /\ mode = "char" /\ ~done /\ Len(out) < OutCap
    /\ IF chars_count(buffer) > max_width
       THEN /\ out' = Append(out, split_line(buffer, max_width)[1])
            /\ buffer' = split_line(buffer, max_width)[2]
            /\ last' = [op |-> "split_buffer", input |-> buffer, reads |-> 0,
                        buffer_before |-> buffer]
            /\ UNCHANGED <<reader, done>>
       ELSE IF buffer # <<>>
       THEN /\ out' = Append(out, buffer)
            /\ buffer' = trim_end_crlf(read_line(reader))
            /\ reader' = after_read_line(reader)
            /\ last' = [op |-> "drain", input |-> <<>>, reads |-> 1,
                        buffer_before |-> buffer]
            /\ UNCHANGED done
       ELSE IF read_line(reader) = <<>>
       THEN /\ done' = TRUE
            /\ last' = [op |-> "eof", input |-> <<>>, reads |-> 1,
                        buffer_before |-> buffer]
            /\ UNCHANGED <<reader, buffer, out>>
       ELSE LET trimmed_line == trim_end_crlf(read_line(reader))
            IN  /\ reader' = after_read_line(reader)
                /\ IF chars_count(trimmed_line) > max_width
                   THEN /\ out' = Append(out, split_line(trimmed_line, max_width)[1])
                        /\ buffer' = split_line(trimmed_line, max_width)[2]
                        /\ last' = [op |-> "read_split", input |-> trimmed_line,
                                    reads |-> 1, buffer_before |-> buffer]
                   ELSE /\ out' = Append(out, trimmed_line)
                        /\ buffer' = buffer
                        /\ last' = [op |-> "read_fit", input |-> <<>>, reads |-> 1,
                                    buffer_before |-> buffer]
                /\ UNCHANGED done
    /\ UNCHANGED <<mode, src, max_width, splitVars, fontVars, pxVars, featVars, faceVars>>

\* WidthLineIterator::next (utils.rs 96-132); collect() stops at None
WidthNext ==
    /\ mode = "char" /\ ~done /\ Len(out) < OutCap
    /\ IF chars_count(buffer) > max_width
       THEN /\ out' = Append(out, split_line(buffer, max_width)[1])
            /\ buffer' = split_line(buffer, max_width)[2]
            /\ last' = [op |-> "split_buffer", input |-> buffer, reads |-> 0,
                        buffer_before |-> buffer]
            /\ UNCHANGED <<reader, done>>
       ELSE IF buffer # <<>>
       THEN /\ out' = Append(out, buffer)
            /\ buffer' = <<>>
            /\ last' = [op |-> "drain", input |-> <<>>, reads |-> 0,
                        buffer_before |-> buffer]
            /\ UNCHANGED <<reader, done>>
       ELSE IF read_line(reader) = <<>>
       THEN /\ done' = TRUE
            /\ last' = [op |-> "eof", input |-> <<>>, reads |-> 1,
                        buffer_before |-> buffer]
            /\ UNCHANGED <<reader, buffer, out>>
       ELSE LET trimmed_line == trim_end_crlf(read_line(reader))
            IN  /\ reader' = after_read_line(reader)
                /\ IF chars_count(trimmed_line) > max_width
                   THEN /\ out' = Append(out, split_line(trimmed_line, max_width)[1])
                        /\ buffer' = split_line(trimmed_line, max_width)[2]
                        /\ last' = [op |-> "read_split", input |-> trimmed_line,
                                    reads |-> 1, buffer_before |-> buffer]
                   ELSE /\ out' = Append(out, trimmed_line)
                        /\ buffer' = buffer
                        /\ last' = [op |-> "read_fit", input |-> <<>>, reads |-> 1,
                                    buffer_before |-> buffer]
                /\ UNCHANGED done
    /\ UNCHANGED <<mode, src, max_width, splitVars, fontVars, pxVars, featVars, faceVars>>

NextChar == WidthNext
SpecChar == InitChar /\ [][NextChar]_vars

\* ------------------------------------------------------------------------
\* split_line on its own
\* ------------------------------------------------------------------------

InitSplit ==
    /\ mode = "split"
    /\ sl_line \in StringsUpTo(Alphabet, MaxSrcLen)
    /\ sl_width \in 0..MaxWidth
    /\ sl_result = <<>>
    /\ IdleIter /\ IdleFont /\ IdlePx /\ DefaultFeatures /\ IdleFace

CallSplitLine ==
    /\ mode = "split" /\ sl_result = <<>>
    /\ sl_result' = <<split_line(sl_line, sl_width)>>
    /\ UNCHANGED <<mode, iterVars, sl_line, sl_width, fontVars, pxVars, featVars, faceVars>>

NextSplit == CallSplitLine
SpecSplit == InitSplit /\ [][NextSplit]_vars

\* ------------------------------------------------------------------------
\* calculate_text_width (utils.rs 240-279)
\* ------------------------------------------------------------------------

\* enum FontStyle
FontStyle == {"Thin", "ExtraLight", "Light", "Regular", "Medium", "SemiBold",
              "Bold", "ExtraBold", "Black", "Italic"}

\* a loaded face: whether copy_font_data() and Face::from_slice give a face
\* the shaping engine can use
FaceHandles == [usable : BOOLEAN]

\* FontConfig::get_font_by_style: <<face>> for Some(face), <<>> for None
get_font_by_style(fs, style) == IF style \in DOMAIN fs THEN <<fs[style]>> ELSE <<>>

\* the scaled advance of the glyph the shaping engine returns for a scalar:
\* glyph_pos.x_advance as f32 * scale_factor, in pixels
x_advance(c) == IF c \in {"E9", "U3000"} THEN 2 ELSE 1

RECURSIVE total_advance(_)
total_advance(text) ==
    IF text = <<>> THEN 0 ELSE x_advance(Head(text)) + total_advance(Tail(text))

\* a face lookup with no fallback to the regular face
resolve_face_style_only(fs, style) == get_font_by_style(fs, style)

\* the face calculate_text_width measures with: that of the style, or else the
\* regular one; <<>> when there is neither
resolve_face(fs, style) ==
    IF get_font_by_style(fs, style) # <<>> THEN get_font_by_style(fs, style)
    ELSE get_font_by_style(fs, "Regular")

\* calculate_text_width(text, font_config, font_style): <<w>> for Some(w),
\* <<>> for None.  gap is letter_space * scale_factor * units_per_em.
calculate_text_width(text, fs, gap, style) ==
    IF text = <<>> THEN <<0>>
    ELSE IF resolve_face(fs, style) = <<>> THEN <<>>
    ELSE IF ~resolve_face(fs, style)[1].usable THEN <<>>
    ELSE <<total_advance(text)
           + (IF chars_count(text) > 1 THEN gap * (chars_count(text) - 1) ELSE 0)>>

\* ------------------------------------------------------------------------
\* split_line_by_pixel_width (utils.rs 282-352)
\* ------------------------------------------------------------------------

\* the character budget of the fallback when no width can be measured
FallbackWidth == 50

\* the first pass, from prefix length i on: <<best_split, wrap_split>>, with
\* wrap_split = -1 for None
RECURSIVE first_pass(_, _, _, _, _, _, _, _)
first_pass(chars, i, best_split, wrap_split, max_pw, fs, gap, style) ==
    IF i > Len(chars) THEN <<best_split, wrap_split>>
    ELSE LET width == calculate_text_width(SubSeq(chars, 1, i), fs, gap, style)
         IN  IF width = <<>>
             THEN first_pass(chars, i + 1, best_split, wrap_split, max_pw, fs, gap, style)
             ELSE IF width[1] <= max_pw
             THEN first_pass(chars, i + 1, i,
                             IF i < Len(chars) /\ is_ascii_whitespace(chars[i])
                             THEN i - 1 ELSE wrap_split,
                             max_pw, fs, gap, style)
             ELSE <<best_split, wrap_split>>

\* the backward search from best_split: the position it stops at
RECURSIVE search_back(_, _)
search_back(chars, search_pos) ==
    IF search_pos > 0
    THEN IF is_ascii_whitespace(chars[search_pos]) THEN search_pos - 1
         ELSE search_back(chars, search_pos - 1)
    ELSE search_pos

\* a split point that is the recorded word boundary however far back it is
choose_split_point_wrap_first(chars, best_split, wrap_split) ==
    IF wrap_split # -1 THEN wrap_split
    ELSE LET search_pos == search_back(chars, best_split)
         IN  IF search_pos > 0 /\ is_ascii_whitespace(chars[search_pos + 1])
             THEN search_pos ELSE best_split

\* the split point before the guard against 0
choose_split_point(chars, best_split, wrap_split) ==
    IF wrap_split # -1
    THEN LET distance == IF best_split >= wrap_split THEN best_split - wrap_split ELSE 0
         IN  IF distance <= best_split \div 4 THEN wrap_split ELSE best_split
    ELSE LET search_pos == search_back(chars, best_split)
         IN  IF search_pos > 0 /\ is_ascii_whitespace(chars[search_pos + 1])
             THEN search_pos ELSE best_split

\* a split point one past the longest prefix that fits
split_point_past(chars, best_split, wrap_split) ==
    IF best_split < Len(chars) THEN best_split + 1 ELSE best_split

\* the split point after the guard: 1.min(chars.len()) in place of 0
split_point_of(chars, best_split, wrap_split) ==
    IF choose_split_point(chars, best_split, wrap_split) = 0
    THEN (IF Len(chars) < 1 THEN Len(chars) ELSE 1)
    ELSE choose_split_point(chars, best_split, wrap_split)

\* a split_line_by_pixel_width that returns an unmeasurable line whole
split_line_by_pixel_width_no_fallback(line, max_pw, fs, gap, style) ==
    LET text_width == calculate_text_width(line, fs, gap, style)
    IN  IF text_width = <<>> THEN <<trim_end(line), <<>>>>
        ELSE IF text_width[1] <= max_pw THEN <<trim_end(line), <<>>>>
        ELSE LET pass == first_pass(line, 1, 0, -1, max_pw, fs, gap, style)
                 split_point == split_point_of(line, pass[1], pass[2])
             IN  <<trim_end(SubSeq(line, 1, split_point)),
                   trim_start(SubSeq(line, split_point + 1, Len(line)))>>

\* split_line_by_pixel_width(line, max_pixel_width, font_config, font_style)
split_line_by_pixel_width(line, max_pw, fs, gap, style) ==
    LET text_width == calculate_text_width(line, fs, gap, style)
    IN  IF text_width = <<>> THEN split_line(line, FallbackWidth)
        ELSE IF text_width[1] <= max_pw THEN <<trim_end(line), <<>>>>
        ELSE LET pass == first_pass(line, 1, 0, -1, max_pw, fs, gap, style)
                 split_point == split_point_of(line, pass[1], pass[2])
             IN  <<trim_end(SubSeq(line, 1, split_point)),
                   trim_start(SubSeq(line, split_point + 1, Len(line)))>>

\* ------------------------------------------------------------------------
\* wrap_text_by_pixel_width (utils.rs 355-386)
\* ------------------------------------------------------------------------

\* the while loop, from the state (lines, remaining)
RECURSIVE wrap_loop(_, _, _, _, _, _)
wrap_loop(lines, remaining, max_pw, fs, gap, style) ==
    IF remaining = <<>> THEN lines
    ELSE LET text_width == calculate_text_width(remaining, fs, gap, style)
         IN  IF text_width # <<>> /\ text_width[1] <= max_pw
             THEN Append(lines, remaining)
             ELSE LET parts == split_line_by_pixel_width(remaining, max_pw, fs, gap, style)
                  IN  IF parts[1] = <<>> THEN lines
                      ELSE wrap_loop(Append(lines, parts[1]), parts[2], max_pw, fs, gap, style)

wrap_text_by_pixel_width(text, max_pw, fs, gap, style) ==
    IF text = <<>> THEN << <<>> >>
    ELSE wrap_loop(<<>>, text, max_pw, fs, gap, style)

\* ------------------------------------------------------------------------
\* The pixel wrappers at work
\* ------------------------------------------------------------------------

\* the scalars of the texts given to the pixel wrappers
PixAlphabet == {"a", "E9", "SP", "LF"}

\* the font configurations the pixel wrappers are run with: the face of the
\* style asked for; no such face, the regular one and letter spacing; tightened
\* letter spacing; no face at all
RegularOnly == [s \in {"Regular"} |-> [usable |-> TRUE]]
PixelConfigs ==
    { [faces |-> RegularOnly, letter_space |-> 0, font_style |-> "Regular"],
      [faces |-> RegularOnly, letter_space |-> 1, font_style |-> "Bold"],
      [faces |-> <<>>, letter_space |-> 0, font_style |-> "Regular"] }

InitFont ==
    /\ \E c \in PixelConfigs :
          /\ faces = c.faces
          /\ letter_space = c.letter_space
          /\ font_style = c.font_style
    /\ max_pixel_width \in (-1)..MaxPixelWidth

\* split_line_by_pixel_width and wrap_text_by_pixel_width on any text
InitPixFn ==
    /\ mode = "pixfn"
    /\ src \in StringsUpTo(PixAlphabet, MaxPixText)
    /\ InitFont
    /\ reader = <<>> /\ max_width = 0 /\ buffer = <<>> /\ out = <<>>
    /\ done = FALSE /\ last = NoLast
    /\ IdleSplit /\ IdlePx /\ DefaultFeatures /\ IdleFace

\* PixelWidthLineIterator::new over any text
InitPixIter ==
    /\ mode = "pixiter"
    /\ src \in StringsUpTo(PixAlphabet, MaxPixSrc)
    /\ reader = src
    /\ InitFont
    /\ max_width = 0 /\ buffer = <<>> /\ out = <<>>
    /\ done = FALSE /\ last = NoLast
    /\ IdleSplit /\ IdlePx /\ DefaultFeatures /\ IdleFace

\* texts of about FallbackWidth scalars and more: a run of "a", after nothing,
\* a space or a short word, before nothing or a short word
RECURSIVE Repeat(_, _)
Repeat(c, n) == IF n <= 0 THEN <<>> ELSE <<c>> \o Repeat(c, n - 1)
LongTexts ==
    { h \o Repeat("a", n) \o tl :
        h \in {<<>>, <<"SP">>, <<"a", "SP">>},
        n \in (FallbackWidth - 1)..(FallbackWidth + MaxOver),
        tl \in {<<>>, <<"SP", "a">>} }

\* the font configurations that give no width: no face, or a regular face
\* whose data cannot be read
NoWidthFaces == {<<>>, [s \in {"Regular"} |-> [usable |-> FALSE]]}

\* the pixel functions and the pixel iterator on a long text that cannot be
\* measured
InitPixLong ==
    /\ mode \in {"pixfn", "pixiter"}
    /\ src \in LongTexts
    /\ reader = IF mode = "pixiter" THEN src ELSE <<>>
    /\ faces \in NoWidthFaces
    /\ letter_space = 0
    /\ font_style \in {"Regular", "Bold"}
    /\ max_pixel_width \in (-1)..MaxPixelWidth
    /\ max_width = 0 /\ buffer = <<>> /\ out = <<>>
    /\ done = FALSE /\ last = NoLast
    /\ IdleSplit /\ IdlePx /\ DefaultFeatures /\ IdleFace

InitPixel == InitPixFn \/ InitPixIter \/ InitPixLong

\* Some(w) with w > max_pixel_width
too_wide(text) ==
    /\ calculate_text_width(text, faces, letter_space, font_style) # <<>>
    /\ calculate_text_width(text, faces, letter_space, font_style)[1] > max_pixel_width

\* split_line_by_pixel_width (utils.rs 282-352) on src
CallSplitPixel ==
    /\ mode = "pixfn" /\ px_split = <<>>
    /\ px_split' = <<split_line_by_pixel_width(src, max_pixel_width, faces,
                                               letter_space, font_style)>>
    /\ px_point' = IF too_wide(src)
                   THEN LET pass == first_pass(src, 1, 0, -1, max_pixel_width, faces,
                                               letter_space, font_style)
                        IN  <<[best_split |-> pass[1], wrap_split |-> pass[2],
                               split_point |-> split_point_of(src, pass[1], pass[2])]>>
                   ELSE <<>>
    /\ UNCHANGED <<mode, iterVars, splitVars, fontVars, px_wrap, px_width, featVars, faceVars>>

CallWrapPixel ==
    /\ mode \in {"pixfn", "pixiter"} /\ px_wrap = <<>>
    /\ px_wrap' = <<wrap_text_by_pixel_width(src, max_pixel_width, faces,
                                             letter_space, font_style)>>
    /\ UNCHANGED <<mode, iterVars, splitVars, fontVars, px_split, px_point, px_width, featVars, faceVars>>

\* PixelWidthLineIterator::next (utils.rs 162-201); collect() stops at None
PixelNext ==
    /\ mode = "pixiter" /\ ~done /\ Len(out) < OutCap
    /\ IF too_wide(buffer)
       THEN LET parts == split_line_by_pixel_width(buffer, max_pixel_width, faces,
                                                   letter_space, font_style)
            IN  /\ out' = Append(out, parts[1])
                /\ buffer' = parts[2]
                /\ last' = [op |-> "split_buffer", input |-> buffer, reads |-> 0,
                            buffer_before |-> buffer]
                /\ UNCHANGED <<reader, done>>
       ELSE IF buffer # <<>>
       THEN /\ out' = Append(out, buffer)
            /\ buffer' = <<>>
            /\ last' = [op |-> "drain", input |-> <<>>, reads |-> 0,
                        buffer_before |-> buffer]
            /\ UNCHANGED <<reader, done>>
       ELSE IF read_line(reader) = <<>>
       THEN /\ done' = TRUE
            /\ last' = [op |-> "eof", input |-> <<>>, reads |-> 1,
                        buffer_before |-> buffer]
            /\ UNCHANGED <<reader, buffer, out>>
       ELSE LET trimmed_line == trim_end_crlf(read_line(reader))
                parts == split_line_by_pixel_width(trimmed_line, max_pixel_width, faces,
                                                   letter_space, font_style)
            IN  /\ reader' = after_read_line(reader)
                /\ IF too_wide(trimmed_line)
                   THEN /\ out' = Append(out, parts[1])
                        /\ buffer' = parts[2]
                        /\ last' = [op |-> "read_split", input |-> trimmed_line,
                                    reads |-> 1, buffer_before |-> buffer]
                   ELSE /\ out' = Append(out, trimmed_line)
                        /\ buffer' = buffer
                        /\ last' = [op |-> "read_fit", input |-> <<>>, reads |-> 1,
                                    buffer_before |-> buffer]
                /\ UNCHANGED done
    /\ UNCHANGED <<mode, src, max_width, splitVars, fontVars, pxVars, featVars, faceVars>>

NextPixel == CallSplitPixel \/ CallWrapPixel \/ PixelNext
SpecPixel == InitPixel /\ [][NextPixel]_vars

\* the two line iterators, each over its own source
InitIter == InitChar \/ InitPixIter
NextIter == WidthNext \/ PixelNext
SpecIter == InitIter /\ [][NextIter]_vars

\* ------------------------------------------------------------------------
\* FontConfig's features (font.rs 229-326)
\* ------------------------------------------------------------------------

\* str::trim
trim(s) == trim_start(trim_end(s))

\* features_str.split(','): the pieces between commas, empty ones included
RECURSIVE split_comma_from(_, _, _)
split_comma_from(s, i, cur) ==
    IF i > Len(s) THEN <<cur>>
    ELSE IF s[i] = "," THEN <<cur>> \o split_comma_from(s, i + 1, <<>>)
    ELSE split_comma_from(s, i + 1, Append(cur, s[i]))
split_comma(s) == split_comma_from(s, 1, <<>>)

\* feature_str.find('='): the position (from 1) of the first '=', 0 for None
find_eq(s) ==
    IF \E i \in 1..Len(s) : s[i] = "="
    THEN CHOOSE i \in 1..Len(s) : s[i] = "=" /\ \A j \in 1..(i - 1) : s[j] # "="
    ELSE 0

\* the decimal digits of the feature strings
DigitValue(c) == IF c = "0" THEN 0 ELSE IF c = "1" THEN 1 ELSE IF c = "2" THEN 2 ELSE -1

RECURSIVE digits_value(_, _)
digits_value(s, acc) ==
    IF s = <<>> THEN acc ELSE digits_value(Tail(s), 10 * acc + DigitValue(Head(s)))

\* value_str.parse::<u32>(): <<v>> for Ok(v), <<>> for Err: an optional '+',
\* then one or more decimal digits (the values of the strings modelled are far
\* below u32::MAX, so the overflow error does not arise)
parse_u32(s) ==
    LET digits == IF s # <<>> /\ Head(s) = "+" THEN Tail(s) ELSE s
    IN  IF digits = <<>> THEN <<>>
        ELSE IF \E i \in 1..Len(digits) : DigitValue(digits[i]) = -1 THEN <<>>
        ELSE <<digits_value(digits, 0)>>

\* the (tag, value) of one trimmed, non-empty piece: [ok, tag, value] or, when
\* the value does not parse, [ok |-> FALSE, tag, value_str]
parse_feature(feature_str) ==
    IF find_eq(feature_str) # 0
    THEN LET tag == trim(SubSeq(feature_str, 1, find_eq(feature_str) - 1))
             value_str == trim(SubSeq(feature_str, find_eq(feature_str) + 1, Len(feature_str)))
         IN  IF parse_u32(value_str) = <<>>
             THEN [ok |-> FALSE, tag |-> tag, value_str |-> value_str]
             ELSE [ok |-> TRUE, tag |-> tag, value |-> parse_u32(value_str)[1]]
    ELSE [ok |-> TRUE, tag |-> feature_str, value |-> 1]

\* HashMap::remove and HashMap::insert
map_remove(m, tag) == [tg \in DOMAIN m \ {tag} |-> m[tg]]
map_insert(m, tag, f) == [tg \in DOMAIN m \cup {tag} |-> IF tg = tag THEN f ELSE m[tg]]

\* the handling of a parsed feature that also stores a feature of value 0
enable_or_disable_store_zero(m, tag, value) == map_insert(m, tag, Feature(tag, value))

\* "Handle feature enable/disable" (font.rs 275-298)
enable_or_disable(m, tag, value) ==
    IF value = 0 THEN map_remove(m, tag)
    ELSE map_insert(m, tag, Feature(tag, value))

\* a tag check that counts scalars, not bytes
tag_len_ok_scalars(tag) == chars_count(tag) = 4

\* tag.len() != 4 is the error (font.rs 270): the length in bytes
tag_len_ok(tag) == ByteLen(tag) = 4

\* the loop over the pieces, from piece i on, with the map so far: the map it
\* leaves and how it ended ("Ok", or the error and the piece it stopped at)
RECURSIVE features_loop(_, _, _)
features_loop(pieces, i, m) ==
    IF i > Len(pieces) THEN [map |-> m, result |-> [kind |-> "Ok"]]
    ELSE LET feature_str == trim(pieces[i])
         IN  IF feature_str = <<>> THEN features_loop(pieces, i + 1, m)
             ELSE LET parsed == parse_feature(feature_str)
                  IN  IF ~parsed.ok
                      THEN [map |-> m,
                            result |-> [kind |-> "InvalidValue", at |-> i,
                                        tag |-> parsed.tag, value_str |-> parsed.value_str]]
                      ELSE IF ~tag_len_ok(parsed.tag)
                      THEN [map |-> m,
                            result |-> [kind |-> "InvalidTagLength", at |-> i,
                                        tag |-> parsed.tag]]
                      ELSE features_loop(pieces, i + 1,
                                         enable_or_disable(m, parsed.tag, parsed.value))

\* a set_features_from_string that clears the map first: a reset, not an
\* override
set_features_from_string_reset(m, fs, features_str) ==
    LET ran == features_loop(split_comma(features_str), 1, <<>>)
    IN  [feature_map |-> ran.map,
         features |-> IF ran.result.kind = "Ok" THEN map_values(ran.map) ELSE fs,
         result |-> ran.result]

\* a set_features_from_string that leaves the map as it was on an error
set_features_from_string_rollback(m, fs, features_str) ==
    LET ran == features_loop(split_comma(features_str), 1, m)
    IN  [feature_map |-> IF ran.result.kind = "Ok" THEN ran.map ELSE m,
         features |-> IF ran.result.kind = "Ok" THEN map_values(ran.map) ELSE fs,
         result |-> ran.result]

\* set_features_from_string(features_str) on (feature_map, features): the map
\* and the list it leaves, and its result.  An error returns before the list
\* is rebuilt (font.rs 262, 271, 302).
set_features_from_string(m, fs, features_str) ==
    LET ran == features_loop(split_comma(features_str), 1, m)
    IN  [feature_map |-> ran.map,
         features |-> IF ran.result.kind = "Ok" THEN map_values(ran.map) ELSE fs,
         result |-> ran.result]

\* the feature strings given to set_features_from_string are built from
\* tokens; each token is its text (str) together with what it says: whether it
\* is blank, its tag, whether it has a value part and, if so, the value text's
\* number (-1 when it is no number)
Token(str, tag, has_value, value) ==
    [str |-> str, blank |-> FALSE, tag |-> tag, has_value |-> has_value, value |-> value]
Kern == <<"k", "e", "r", "n">>
Cv01 == <<"c", "v", "0", "1">>
FeatureTokens ==
    { Token(Kern \o <<"=", "0">>, Kern, TRUE, 0),
      Token(Kern \o <<"=", "2">>, Kern, TRUE, 2),
      Token(Cv01, Cv01, FALSE, 1),
      Token(<<"SP">> \o Cv01 \o <<"SP", "=", "SP", "2", "SP">>, Cv01, TRUE, 2),
      Token(Cv01 \o <<"=", "0">>, Cv01, TRUE, 0),
      Token(Cv01 \o <<"=", "x">>, Cv01, TRUE, -1),
      Token(<<"c", "v", "=", "1">>, <<"c", "v">>, TRUE, 1),
      Token(<<"c", "v", "=", "x">>, <<"c", "v">>, TRUE, -1),
      Token(<<"E9", "E9", "=", "1">>, <<"E9", "E9">>, TRUE, 1),
      [str |-> <<"SP">>, blank |-> TRUE, tag |-> <<>>, has_value |-> FALSE, value |-> 1] }

\* the token lists of at most MaxTokens tokens
FeatureTokenLists == StringsUpTo(FeatureTokens, MaxTokens) \ {<<>>}

\* the feature string of a token list: the tokens' texts joined by commas
RECURSIVE join_comma(_)
join_comma(toks) ==
    IF Len(toks) = 1 THEN toks[1].str
    ELSE toks[1].str \o <<",">> \o join_comma(Tail(toks))

\* the names given to add_feature and remove_feature: plain tags, for which
\* Feature::from_str gives the tag's feature with value 1
FeatureNames == {Kern, Cv01}

InitFeat ==
    /\ mode = "feat"
    /\ DefaultFeatures /\ IdleFace
    /\ IdleIter /\ IdleSplit /\ IdleFont /\ IdlePx /\ IdleFace

\* FontConfig::has_feature
has_feature(m, name) == name \in DOMAIN m

\* FontConfig::add_feature (font.rs 233-236)
AddFeature ==
    /\ mode = "feat" /\ fcall = NoCall
    /\ \E name \in FeatureNames :
          /\ feature_map' = map_insert(feature_map, name, Feature(name, 1))
          /\ features' = map_values(feature_map')
          /\ fcall' = [op |-> "add_feature", name |-> name,
                       prior_map |-> feature_map, prior_features |-> features]
    /\ UNCHANGED <<mode, iterVars, splitVars, fontVars, pxVars, faceVars>>

\* FontConfig::remove_feature (font.rs 238-243)
RemoveFeature ==
    /\ mode = "feat" /\ fcall = NoCall
    /\ \E name \in FeatureNames :
          /\ IF has_feature(feature_map, name)
             THEN /\ feature_map' = map_remove(feature_map, name)
                  /\ features' = map_values(feature_map')
             ELSE UNCHANGED <<feature_map, features>>
          /\ fcall' = [op |-> "remove_feature", name |-> name,
                       prior_map |-> feature_map, prior_features |-> features]
    /\ UNCHANGED <<mode, iterVars, splitVars, fontVars, pxVars, faceVars>>

\* FontConfig::set_features_from_string (font.rs 247-309)
SetFeaturesFromString ==
    /\ mode = "feat" /\ fcall = NoCall
    /\ \E toks \in FeatureTokenLists :
          LET ran == set_features_from_string(feature_map, features, join_comma(toks))
          IN  /\ feature_map' = ran.feature_map
              /\ features' = ran.features
              /\ fcall' = [op |-> "set_features_from_string", tokens |-> toks,
                           prior_map |-> feature_map, prior_features |-> features,
                           result |-> ran.result]
    /\ UNCHANGED <<mode, iterVars, splitVars, fontVars, pxVars, faceVars>>

\* the caller takes the result; the next call can follow
Return ==
    /\ mode = "feat" /\ fcall # NoCall
    /\ fcall' = NoCall
    /\ UNCHANGED <<mode, iterVars, splitVars, fontVars, pxVars, faceVars, feature_map, features>>

NextFeat == AddFeature \/ RemoveFeature \/ SetFeaturesFromString \/ Return
SpecFeat == InitFeat /\ [][NextFeat]_vars

\* ------------------------------------------------------------------------
\* Style resolution (font.rs 109-163)
\* ------------------------------------------------------------------------

\* char::to_lowercase on the letters the names are written in
to_lowercase_char(c) ==
    CASE c = "B" -> "b" [] c = "D" -> "d" [] c = "E" -> "e" [] c = "I" -> "i"
      [] c = "L" -> "l" [] c = "M" -> "m" [] c = "O" -> "o" [] c = "R" -> "r"
      [] c = "S" -> "s" [] c = "T" -> "t"
      [] OTHER -> c

\* String::to_lowercase
to_lowercase(name) == [i \in 1..Len(name) |-> to_lowercase_char(name[i])]

\* str::contains
contains(s, pat) ==
    \E i \in 1..(Len(s) - Len(pat) + 1) : SubSeq(s, i, i + Len(pat) - 1) = pat

\* the keywords font_full_name_to_weight looks for
kw_extralight == <<"e", "x", "t", "r", "a", "l", "i", "g", "h", "t">>
kw_light == <<"l", "i", "g", "h", "t">>
kw_medium == <<"m", "e", "d", "i", "u", "m">>
kw_regular == <<"r", "e", "g", "u", "l", "a", "r">>
kw_semibold == <<"s", "e", "m", "i", "b", "o", "l", "d">>
kw_bold == <<"b", "o", "l", "d">>

\* a font_full_name_to_weight that looks for "bold" before "semibold"
font_full_name_to_weight_bold_first(name) ==
    LET lower == to_lowercase(name)
    IN  IF contains(lower, kw_extralight) THEN <<"ExtraLight">>
        ELSE IF contains(lower, kw_light) THEN <<"Light">>
        ELSE IF contains(lower, kw_medium) THEN <<"Medium">>
        ELSE IF contains(lower, kw_regular) THEN <<"Regular">>
        ELSE IF contains(lower, kw_bold) THEN <<"Bold">>
        ELSE IF contains(lower, kw_semibold) THEN <<"SemiBold">>
        ELSE <<>>

\* font_full_name_to_weight(name): <<style>> for Some(style), <<>> for None
font_full_name_to_weight(name) ==
    LET lower == to_lowercase(name)
    IN  IF contains(lower, kw_extralight) THEN <<"ExtraLight">>
        ELSE IF contains(lower, kw_light) THEN <<"Light">>
        ELSE IF contains(lower, kw_medium) THEN <<"Medium">>
        ELSE IF contains(lower, kw_regular) THEN <<"Regular">>
        ELSE IF contains(lower, kw_semibold) THEN <<"SemiBold">>
        ELSE IF contains(lower, kw_bold) THEN <<"Bold">>
        ELSE <<>>

\* font_kit's Weight landmarks
Weight ==
    [THIN |-> 100, EXTRA_LIGHT |-> 200, LIGHT |-> 300, NORMAL |-> 400, MEDIUM |-> 500,
     SEMIBOLD |-> 600, BOLD |-> 700, EXTRA_BOLD |-> 800, BLACK |-> 900]

\* approximate_font_weight(weight)
approximate_font_weight(w) ==
    IF w >= Weight.THIN /\ w < Weight.EXTRA_LIGHT THEN "Thin"
    ELSE IF w >= Weight.EXTRA_LIGHT /\ w < Weight.LIGHT THEN "ExtraLight"
    ELSE IF w >= Weight.LIGHT /\ w < Weight.NORMAL THEN "Light"
    ELSE IF w >= Weight.NORMAL /\ w < Weight.MEDIUM THEN "Regular"
    ELSE IF w >= Weight.MEDIUM /\ w < Weight.SEMIBOLD THEN "Medium"
    ELSE IF w >= Weight.SEMIBOLD /\ w < Weight.BOLD THEN "SemiBold"
    ELSE IF w >= Weight.BOLD /\ w < Weight.EXTRA_BOLD THEN "Bold"
    ELSE IF w >= Weight.EXTRA_BOLD /\ w < Weight.BLACK THEN "ExtraBold"
    ELSE "Black"

\* ------------------------------------------------------------------------
\* FontConfig::new: the face set (font.rs 166-203)
\* ------------------------------------------------------------------------

\* the key the loop stores a loaded face under: <<style>>, or <<>> for a face
\* it drops
style_of_face(font) ==
    IF font_full_name_to_weight(font.full_name) # <<>>
    THEN font_full_name_to_weight(font.full_name)
    ELSE IF font.style = "Normal" THEN <<approximate_font_weight(font.weight)>>
    ELSE IF font.style = "Italic" THEN <<"Italic">>
    ELSE <<>>

\* a loop that keeps the first face stored under a key
RECURSIVE load_faces_first_wins(_, _, _)
load_faces_first_wins(fonts, i, fs) ==
    IF i > Len(fonts) THEN [kind |-> "Ok", faces |-> fs]
    ELSE IF ~fonts[i].loads THEN [kind |-> "Err"]
    ELSE LET key == style_of_face(fonts[i])
         IN  IF key = <<>> \/ key[1] \in DOMAIN fs
             THEN load_faces_first_wins(fonts, i + 1, fs)
             ELSE load_faces_first_wins(fonts, i + 1,
                                        map_insert(fs, key[1], [index |-> i, font |-> fonts[i]]))

\* the loop over font_family.fonts(), from handle i on with the faces fs; a
\* stored face is the loaded font and its place in the family
RECURSIVE load_faces(_, _, _)
load_faces(fonts, i, fs) ==
    IF i > Len(fonts) THEN [kind |-> "Ok", faces |-> fs]
    ELSE IF ~fonts[i].loads THEN [kind |-> "Err"]
    ELSE LET key == style_of_face(fonts[i])
         IN  IF key = <<>> THEN load_faces(fonts, i + 1, fs)
             ELSE load_faces(fonts, i + 1,
                             map_insert(fs, key[1], [index |-> i, font |-> fonts[i]]))

\* ------------------------------------------------------------------------
\* Style resolution at work
\* ------------------------------------------------------------------------

\* the pieces full names are made of
NamePieces ==
    { <<"E", "x", "t", "r", "a">>, <<"L", "i", "g", "h", "t">>, <<"l", "i", "g", "h", "t">>, <<"S", "e", "m", "i">>, <<"D", "e", "m", "i">>, <<"B", "o", "l", "d">>, <<"B", "O", "L", "D">>, <<"M", "e", "d", "i", "u", "m">>,
      <<"R", "e", "g", "u", "l", "a", "r">>, <<"SP">> }

RECURSIVE concat_parts(_)
concat_parts(parts) ==
    IF parts = <<>> THEN <<>> ELSE Head(parts) \o concat_parts(Tail(parts))

\* the full names of at most MaxNameParts pieces
FaceNames == {concat_parts(parts) : parts \in StringsUpTo(NamePieces, MaxNameParts)}

\* numeric weights: at, just below and between the landmarks, below the first
\* and above the last
Weights ==
    {0, 50, 1000}
    \cup UNION {{Weight[k] - 1, Weight[k], Weight[k] + 50} : k \in DOMAIN Weight}

\* a face handle: its full name, its posture, its numeric weight and whether
\* handle.load() succeeds
Face(name, style, w, loads) ==
    [full_name |-> name, style |-> style, weight |-> w, loads |-> loads]

\* the handles the families are made of
FaceCatalog ==
    { Face(<<"x", "SP", "B", "o", "l", "d">>, "Normal", 700, TRUE),
      Face(<<"x", "SP", "S", "e", "m", "i", "B", "o", "l", "d", "SP", "I", "t", "a", "l", "i", "c">>, "Italic", 600, TRUE),
      Face(<<"x", "SP", "E", "x", "t", "r", "a", "B", "o", "l", "d">>, "Normal", 800, TRUE),
      Face(<<"x", "SP", "I", "t", "a", "l", "i", "c">>, "Italic", 400, TRUE),
      Face(<<"x", "SP", "O", "b", "l", "i", "q", "u", "e">>, "Oblique", 400, TRUE),
      Face(<<"x">>, "Normal", 700, TRUE),
      Face(<<"x", "SP", "T", "h", "i", "n">>, "Normal", 100, TRUE),
      Face(<<"x", "SP", "L", "i", "g", "h", "t">>, "Normal", 300, FALSE) }

\* the families of at most MaxFaces faces
Families == StringsUpTo(FaceCatalog, MaxFaces)

InitNew ==
    /\ mode = "new"
    /\ family \in Families
    /\ built = <<>> /\ full_name = <<>> /\ weight = 0
    /\ name_style = <<>> /\ weight_style = <<>>
    /\ IdleIter /\ IdleSplit /\ IdleFont /\ IdlePx /\ DefaultFeatures

InitName ==
    /\ mode = "name"
    /\ full_name \in FaceNames
    /\ family = <<>> /\ built = <<>> /\ weight = 0
    /\ name_style = <<>> /\ weight_style = <<>>
    /\ IdleIter /\ IdleSplit /\ IdleFont /\ IdlePx /\ DefaultFeatures

InitWeight ==
    /\ mode = "weight"
    /\ weight \in Weights
    /\ family = <<>> /\ built = <<>> /\ full_name = <<>>
    /\ name_style = <<>> /\ weight_style = <<>>
    /\ IdleIter /\ IdleSplit /\ IdleFont /\ IdlePx /\ DefaultFeatures

InitFace == InitNew \/ InitName \/ InitWeight

\* FontConfig::new (font.rs 166-227): the faces it builds, or the error
NewFontConfig ==
    /\ mode = "new" /\ built = <<>>
    /\ built' = <<load_faces(family, 1, <<>>)>>
    /\ UNCHANGED <<mode, iterVars, splitVars, fontVars, pxVars, featVars,
                   family, full_name, weight, name_style, weight_style>>

CallFullNameToWeight ==
    /\ mode = "name" /\ name_style = <<>>
    /\ name_style' = <<font_full_name_to_weight(full_name)>>
    /\ UNCHANGED <<mode, iterVars, splitVars, fontVars, pxVars, featVars,
                   family, built, full_name, weight, weight_style>>

CallApproximateWeight ==
    /\ mode = "weight" /\ weight_style = <<>>
    /\ weight_style' = <<approximate_font_weight(weight)>>
    /\ UNCHANGED <<mode, iterVars, splitVars, fontVars, pxVars, featVars,
                   family, built, full_name, weight, name_style>>

NextFace == NewFontConfig \/ CallFullNameToWeight \/ CallApproximateWeight
SpecFace == InitFace /\ [][NextFace]_vars

\* ------------------------------------------------------------------------
\* calculate_text_width on its own
\* ------------------------------------------------------------------------

\* the face sets of the measurement: any of the regular and the bold face,
\* each usable or not
MeasureFaces ==
    UNION {[present -> FaceHandles] : present \in SUBSET {"Regular", "Bold"}}

InitMeasure ==
    /\ mode = "measure"
    /\ src \in StringsUpTo(PixAlphabet, MaxPixSrc)
    /\ faces \in MeasureFaces
    /\ letter_space \in {0, 1}
    /\ font_style \in {"Regular", "Bold", "Italic"}
    /\ max_pixel_width = 0
    /\ reader = <<>> /\ max_width = 0 /\ buffer = <<>> /\ out = <<>>
    /\ done = FALSE /\ last = NoLast
    /\ IdleSplit /\ IdlePx /\ DefaultFeatures /\ IdleFace

CallCalculateTextWidth ==
    /\ mode = "measure" /\ px_width = <<>>
    /\ px_width' = <<calculate_text_width(src, faces, letter_space, font_style)>>
    /\ UNCHANGED <<mode, iterVars, splitVars, fontVars, px_split, px_wrap, px_point,
                   featVars, faceVars>>

NextMeasure == CallCalculateTextWidth
SpecMeasure == InitMeasure /\ [][NextMeasure]_vars

\* ------------------------------------------------------------------------
\* The whole model
\* ------------------------------------------------------------------------

Init == InitChar \/ InitSplit \/ InitPixel \/ InitFeat \/ InitFace \/ InitMeasure
Next == NextChar \/ NextSplit \/ NextPixel \/ NextFeat \/ NextFace \/ NextMeasure
Spec == Init /\ [][Next]_vars

\* ========================================================================
\* Properties
\* ========================================================================

\* split_whitespace(): the maximal runs of non-whitespace scalars, in order
RECURSIVE WordsFrom(_, _, _)
WordsFrom(s, i, cur) ==
    IF i > Len(s) THEN (IF cur = <<>> THEN <<>> ELSE <<cur>>)
    ELSE IF is_whitespace(s[i])
         THEN (IF cur = <<>> THEN <<>> ELSE <<cur>>) \o WordsFrom(s, i + 1, <<>>)
         ELSE WordsFrom(s, i + 1, Append(cur, s[i]))
Words(s) == WordsFrom(s, 1, <<>>)

\* lines.join(" ")
RECURSIVE JoinSp(_)
JoinSp(lines) ==
    IF lines = <<>> THEN <<>>
    ELSE IF Len(lines) = 1 THEN lines[1]
    ELSE lines[1] \o <<"SP">> \o JoinSp(Tail(lines))

\* the lines one after the other, nothing between them
RECURSIVE Concat(_)
Concat(lines) == IF lines = <<>> THEN <<>> ELSE Head(lines) \o Concat(Tail(lines))

\* s without its whitespace scalars
NonWs(s) == SelectSeq(s, LAMBDA c : ~is_whitespace(c))

\* some run of more than n scalars of s holds no ASCII whitespace
HasLongRun(s, n) ==
    \E i \in 1..Len(s) :
        /\ i + n <= Len(s)
        /\ \A j \in i..(i + n) : ~is_ascii_whitespace(s[j])

\* the first n scalars of s
Prefix(s, n) == SubSeq(s, 1, n)
Suffix(s, n) == SubSeq(s, n + 1, Len(s))
HasAsciiWs(s) == \E i \in 1..Len(s) : is_ascii_whitespace(s[i])
LastAsciiWs(s) == CHOOSE i \in 1..Len(s) :
                    is_ascii_whitespace(s[i]) /\ \A j \in (i + 1)..Len(s) : ~is_ascii_whitespace(s[j])

\* the physical lines of a text: what lies between line feeds (a final line
\* feed ends the last line and starts no new one), trailing CR / LF removed
RECURSIVE PhysLinesFrom(_, _, _)
PhysLinesFrom(s, i, cur) ==
    IF i > Len(s) THEN (IF cur = <<>> THEN <<>> ELSE <<trim_end_crlf(cur)>>)
    ELSE IF s[i] = "LF" THEN <<trim_end_crlf(cur)>> \o PhysLinesFrom(s, i + 1, <<>>)
    ELSE PhysLinesFrom(s, i + 1, Append(cur, s[i]))
PhysicalLines(s) == PhysLinesFrom(s, 1, <<>>)

\* C1 (as stated): once the iterator has ended, its lines joined with single
\* spaces and whitespace-collapsed are the whitespace-collapsed source.
C1_JoinedEqualsSource ==
    (mode = "char" /\ done /\ max_width >= 1) => Words(JoinSp(out)) = Words(src)

\* C1 (amended): the non-whitespace scalars of the lines are those of the
\* source, in order, whatever the budget; and the joined, collapsed lines are
\* the collapsed source when no run without ASCII whitespace exceeds the budget.
C1_ContentPreserved ==
    (mode = "char" /\ done /\ max_width >= 1) =>
        /\ NonWs(Concat(out)) = NonWs(src)
        /\ ~HasLongRun(src, max_width) => Words(JoinSp(out)) = Words(src)

\* a source of several words was wrapped into several lines and ended
C1_Witness ==
    /\ mode = "char" /\ done /\ max_width >= 2
    /\ Len(Words(src)) >= 2 /\ ~HasLongRun(src, max_width)
    /\ last.op = "eof" /\ Len(out) >= 2 /\ Len(PhysicalLines(src)) = 1

\* C2: every emitted line has at most max_width scalars, and a split of a line
\* whose first max_width scalars hold no ASCII whitespace emits exactly
\* max_width scalars.
C2_LineWithinBudget ==
    (mode = "char" /\ max_width >= 1) =>
        /\ \A i \in 1..Len(out) : chars_count(out[i]) <= max_width
        /\ (last.op \in {"split_buffer", "read_split"}
              /\ ~HasAsciiWs(Prefix(last.input, max_width)))
           => chars_count(out[Len(out)]) = max_width

\* a line of multi-byte scalars was hard-broken
C2_Witness ==
    /\ mode = "char" /\ max_width >= 2
    /\ last.op \in {"split_buffer", "read_split"}
    /\ ~HasAsciiWs(Prefix(last.input, max_width))
    /\ ByteLen(out[Len(out)]) > max_width

\* C5: split_line(line, B) by cases on the first B scalars of the line.
C5_SplitLineCases ==
    (mode = "split" /\ sl_result # <<>>) =>
        LET head == sl_result[1][1]
            tail == sl_result[1][2]
            B == sl_width
        IN  IF Len(sl_line) <= B
            THEN head = trim_end(sl_line) /\ tail = <<>>
            ELSE IF HasAsciiWs(Prefix(sl_line, B))
            THEN LET w == LastAsciiWs(Prefix(sl_line, B))
                 IN  /\ head = trim_end(Prefix(sl_line, w - 1))
                     /\ tail = trim_start(Suffix(sl_line, w - 1))
            ELSE /\ head = Prefix(sl_line, B)
                 /\ tail = trim_start(Suffix(sl_line, B))

\* a line with two ASCII whitespace scalars in its first B scalars and a
\* multi-byte scalar before them was split
C5_Witness ==
    /\ mode = "split" /\ sl_result # <<>>
    /\ Len(sl_line) > sl_width
    /\ Cardinality({i \in 1..sl_width : is_ascii_whitespace(sl_line[i])}) >= 2
    /\ sl_line[1] = "E9"
    /\ sl_result[1][1] # <<>>

\* C6: when every physical line fits the budget, the lines emitted so far are
\* the first physical lines, unchanged but for their trailing CR / LF, and at
\* the end they are all of them.
C6_NoWrapIdentity ==
    (mode = "char"
       /\ \A i \in 1..Len(PhysicalLines(src)) : Len(PhysicalLines(src)[i]) <= max_width)
    => /\ Len(out) <= Len(PhysicalLines(src))
       /\ out = SubSeq(PhysicalLines(src), 1, Len(out))
       /\ done => out = PhysicalLines(src)

\* a source of an empty line, a line of exactly max_width scalars with
\* whitespace at its end was read to its end
C6_Witness ==
    /\ mode = "char" /\ done /\ max_width >= 2
    /\ Len(PhysicalLines(src)) = 2
    /\ PhysicalLines(src)[1] = <<>>
    /\ Len(PhysicalLines(src)[2]) = max_width
    /\ PhysicalLines(src)[2][max_width] = "SP"
    /\ out = PhysicalLines(src)

\* the width of a text under the font configuration of the state
Measured(text) == calculate_text_width(text, faces, letter_space, font_style)

\* every non-empty text can be measured
MeasurerWorks == Measured(<<"a">>) # <<>>

\* C3 (as stated, on the texts it can hold for: every word of the text fits
\* the budget on a line of its own, so no break inside a word is forced): with
\* a working measurer, the lines of wrap_text_by_pixel_width, and the two parts
\* of split_line_by_pixel_width, joined with single spaces and
\* whitespace-collapsed, are the whitespace-collapsed text.
C3_PixelJoinedEqualsText ==
    (mode = "pixfn" /\ MeasurerWorks
       /\ \A i \in 1..Len(Words(src)) : Measured(Words(src)[i])[1] <= max_pixel_width)
    => /\ px_wrap # <<>> => Words(JoinSp(px_wrap[1])) = Words(src)
       /\ px_split # <<>> => Words(JoinSp(px_split[1])) = Words(src)

\* a line is within the budget, or is one scalar that alone exceeds it
FitsOrSingle(line) ==
    Measured(line) # <<>> =>
        \/ Measured(line)[1] <= max_pixel_width
        \/ Len(line) = 1

\* C4 (as stated): every line the pixel wrappers produce and can measure is
\* within the budget or is a single scalar wider than the budget.
C4_PixelLineWithinBudget ==
    (mode \in {"pixfn", "pixiter"}) =>
        /\ \A i \in 1..Len(out) : FitsOrSingle(out[i])
        /\ px_wrap # <<>> => \A i \in 1..Len(px_wrap[1]) : FitsOrSingle(px_wrap[1][i])

\* C4 (amended): the same for a budget that is not negative.
C4_PixelLineWithinBudgetNonNeg ==
    (mode \in {"pixfn", "pixiter"} /\ max_pixel_width >= 0) =>
        /\ \A i \in 1..Len(out) : FitsOrSingle(out[i])
        /\ px_wrap # <<>> => \A i \in 1..Len(px_wrap[1]) : FitsOrSingle(px_wrap[1][i])

\* the iterator split a measurable line into a first part that fills the
\* budget and later emitted a single scalar wider than the budget
C4_Witness ==
    /\ mode = "pixiter" /\ MeasurerWorks /\ max_pixel_width >= 1
    /\ Len(out) >= 2
    /\ Measured(out[1])[1] = max_pixel_width
    /\ \E i \in 2..Len(out) : Len(out[i]) = 1 /\ Measured(out[i])[1] > max_pixel_width

\* what a token says, applied to a map: a blank token changes nothing, a value
\* of 0 takes the tag out, a value above 0 puts the tag in with that value
SaysApplied(m, tok) ==
    IF tok.blank THEN m
    ELSE IF tok.value = 0 THEN [tg \in DOMAIN m \ {tok.tag} |-> m[tg]]
    ELSE [tg \in DOMAIN m \cup {tok.tag} |->
            IF tg = tok.tag THEN [tag |-> tok.tag, value |-> tok.value] ELSE m[tg]]

RECURSIVE SaysAppliedAll(_, _)
SaysAppliedAll(m, toks) ==
    IF toks = <<>> THEN m ELSE SaysAppliedAll(SaysApplied(m, Head(toks)), Tail(toks))

\* the last call was set_features_from_string
SetCall == mode = "feat" /\ fcall # NoCall /\ fcall.op = "set_features_from_string"

\* the positions of the tokens that mention a tag
Mentions(toks, tg) == {i \in 1..Len(toks) : ~toks[i].blank /\ toks[i].tag = tg}
LastMention(toks, tg) == CHOOSE i \in Mentions(toks, tg) : \A j \in Mentions(toks, tg) : j <= i

\* C7: after a successful set_features_from_string a mentioned tag is absent
\* if its last token says 0 and present with the value its last token says
\* otherwise, and every other tag is as it was before the call.
C7_SparseOverride ==
    (SetCall /\ fcall.result.kind = "Ok") =>
        \A tg \in DOMAIN feature_map \cup DOMAIN fcall.prior_map
                  \cup {fcall.tokens[i].tag : i \in 1..Len(fcall.tokens)} :
            IF Mentions(fcall.tokens, tg) # {}
            THEN LET v == fcall.tokens[LastMention(fcall.tokens, tg)].value
                 IN  IF v = 0 THEN tg \notin DOMAIN feature_map
                     ELSE tg \in DOMAIN feature_map /\ feature_map[tg].value = v
            ELSE /\ tg \in DOMAIN feature_map <=> tg \in DOMAIN fcall.prior_map
                 /\ tg \in DOMAIN feature_map => feature_map[tg] = fcall.prior_map[tg]

\* a successful call on a map that is not the default one, whose two tokens
\* mention the same tag, the last one disabling it, while another tag that an
\* earlier call had set to 2 is not mentioned
C7_Witness ==
    /\ SetCall /\ fcall.result.kind = "Ok"
    /\ Len(fcall.tokens) = 2
    /\ fcall.tokens[1].tag = Cv01 /\ fcall.tokens[1].value = 2
    /\ fcall.tokens[2].tag = Cv01 /\ fcall.tokens[2].value = 0
    /\ Kern \in DOMAIN fcall.prior_map /\ fcall.prior_map[Kern].value = 2
    /\ Cv01 \in DOMAIN fcall.prior_map

\* C8: every feature stored in the feature map has a value above 0.
C8_StoredValuesPositive ==
    mode = "feat" => \A tg \in DOMAIN feature_map : feature_map[tg].value > 0

\* a call whose first token disabled a default feature failed at its second
C8_Witness ==
    /\ SetCall /\ fcall.result.kind # "Ok"
    /\ Len(fcall.tokens) = 2 /\ fcall.tokens[1].value = 0
    /\ fcall.tokens[1].tag \in DOMAIN fcall.prior_map
    /\ fcall.tokens[1].tag \notin DOMAIN feature_map

\* the call gets as far as token k: the tokens before it are blank or accepted
\* with a token accepted when its tag has four scalars and its value parses
ReachedByScalars(toks, k) ==
    \A j \in 1..(k - 1) : toks[j].blank \/ (Len(toks[j].tag) = 4 /\ toks[j].value # -1)
\* with a token accepted when its tag has four bytes and its value parses
ReachedByBytes(toks, k) ==
    \A j \in 1..(k - 1) : toks[j].blank \/ (ByteLen(toks[j].tag) = 4 /\ toks[j].value # -1)

C10_PartialApplication ==
    (SetCall /\ fcall.result.kind # "Ok") =>
        feature_map = SaysAppliedAll(fcall.prior_map,
                                     SubSeq(fcall.tokens, 1, fcall.result.at - 1))

\* a call failed at its second token after its first one had changed the map
C10_Witness ==
    /\ SetCall /\ fcall.result.kind = "InvalidValue"
    /\ fcall.result.at = 2
    /\ feature_map # fcall.prior_map
    /\ fcall.tokens[1].tag = Kern /\ fcall.tokens[1].value = 2

\* C11: split_line on a line with more scalars than the budget, whatever the
\* budget (0 included), returns a remainder with fewer scalars than the line.
C11_SplitLineProgress ==
    (mode = "split" /\ sl_result # <<>> /\ chars_count(sl_line) > sl_width)
    => chars_count(sl_result[1][2]) < chars_count(sl_line)

\* C12: every step of PixelWidthLineIterator that splits the text it finds
\* over-wide, whatever the budget (zero and negative included), leaves a
\* remainder shorter than the text it split; and so does
\* split_line_by_pixel_width called on an over-wide text that is not empty.
C12_PixelSplitProgress ==
    /\ (mode = "pixiter" /\ last.op \in {"split_buffer", "read_split"})
       => Len(buffer) < Len(last.input)
    /\ (mode = "pixfn" /\ px_split # <<>> /\ too_wide(src) /\ src # <<>>)
       => Len(px_split[1][2]) < Len(src)

\* C13: in both iterators a step reads the source at most once, and only when
\* it starts with an empty buffer; what has been emitted, then what the buffer
\* holds, then what the source still holds, is the source's text in its
\* order; and the buffer is empty when the end of the stream is signalled.
C13_BufferBeforeSource ==
    (mode \in {"char", "pixiter"}) =>
        /\ last.reads <= 1
        /\ last.reads = 1 => last.buffer_before = <<>>
        /\ NonWs(Concat(out) \o buffer \o reader) = NonWs(src)
        /\ done => buffer = <<>>

\* the pixel iterator ended after it had emitted the first of two physical
\* lines in several pieces and then read the second
C13_Witness ==
    /\ mode = "pixiter" /\ done /\ buffer = <<>>
    /\ Len(PhysicalLines(src)) = 2
    /\ Len(PhysicalLines(src)[1]) >= 2 /\ PhysicalLines(src)[2] # <<>>
    /\ Len(out) >= 3
    /\ out[Len(out)] = PhysicalLines(src)[2]

\* the 0-based position of the nearest ASCII whitespace before position n of
\* chars, or -1 when there is none
NearestWsBefore(chars, n) ==
    LET hits == {p \in 0..(n - 1) : is_ascii_whitespace(chars[p + 1])}
    IN  IF hits = {} THEN -1 ELSE CHOOSE p \in hits : \A q \in hits : q <= p

\* the backward scan's split point: the nearest whitespace if it is at a
\* position above 0, else best_split
ScanBackPoint(chars, best_split) ==
    IF NearestWsBefore(chars, best_split) > 0
    THEN NearestWsBefore(chars, best_split) ELSE best_split

\* the parts split_line_by_pixel_width returns for a split point (1, or the
\* text's length if that is less, when the split point is 0)
PartsAt(chars, n) ==
    LET at == IF n = 0 THEN (IF Len(chars) < 1 THEN Len(chars) ELSE 1) ELSE n
    IN  <<at, <<trim_end(SubSeq(chars, 1, at)), trim_start(SubSeq(chars, at + 1, Len(chars)))>>>>

\* the split of an over-wide text is the one the split point point_of gives
SplitsAt(point) ==
    /\ px_point[1].split_point = PartsAt(src, point)[1]
    /\ px_split[1] = PartsAt(src, point)[2]

Unmeasurable(text) == Measured(text) = <<>>

\* without a width split_line_by_pixel_width is split_line at FallbackWidth,
\* and no line of wrap_text_by_pixel_width has more scalars than that
FallbackInFunctions ==
    (mode = "pixfn" /\ Unmeasurable(src)) =>
        /\ px_split # <<>> => px_split[1] = split_line(src, FallbackWidth)
        /\ px_wrap # <<>> =>
              \A i \in 1..Len(px_wrap[1]) : chars_count(px_wrap[1][i]) <= FallbackWidth

\* C15 (as stated): without a width split_line_by_pixel_width is
\* split_line(line, 50) whatever the budget, so pixel wrapping, by the function
\* and by the iterator, emits no line of more than 50 scalars.
C15_FallbackSplitsLongText ==
    /\ FallbackInFunctions
    /\ (mode = "pixiter" /\ ~MeasurerWorks) =>
          \A i \in 1..Len(out) : chars_count(out[i]) <= FallbackWidth

\* C15 (amended): the same for the two functions; the iterator, for a budget
\* that is not negative, emits every physical line whole when there is no
\* width.
C15_FallbackInFunctionsOnly ==
    /\ FallbackInFunctions
    /\ (mode = "pixiter" /\ ~MeasurerWorks /\ max_pixel_width >= 0) =>
          \A i \in 1..Len(out) : out[i] = PhysicalLines(src)[i]

\* a text of more than FallbackWidth scalars that cannot be measured was split
\* after its first FallbackWidth scalars, at a budget of 0
C15_Witness ==
    /\ mode = "pixfn" /\ Unmeasurable(src) /\ max_pixel_width = 0
    /\ chars_count(src) > FallbackWidth
    /\ px_split # <<>>
    /\ chars_count(px_split[1][1]) = FallbackWidth
    /\ px_split[1][2] # <<>>
    /\ px_wrap # <<>> /\ Len(px_wrap[1]) = 2

\* the keywords in the order the claim gives them, each with its key
Keywords ==
    << [kw |-> kw_extralight, key |-> "ExtraLight"],
       [kw |-> kw_light, key |-> "Light"],
       [kw |-> kw_medium, key |-> "Medium"],
       [kw |-> kw_regular, key |-> "Regular"],
       [kw |-> kw_semibold, key |-> "SemiBold"],
       [kw |-> kw_bold, key |-> "Bold"] >>

\* the key of the first keyword that is a substring of the lower-cased name:
\* <<key>>, or <<>> when no keyword is
FirstKeyword(name) ==
    LET found == {i \in 1..Len(Keywords) : contains(to_lowercase(name), Keywords[i].kw)}
    IN  IF found = {} THEN <<>>
        ELSE <<Keywords[CHOOSE i \in found : \A j \in found : i <= j].key>>

\* C16: font_full_name_to_weight returns the key of the first keyword, in the
\* order extralight, light, medium, regular, semibold, bold, that the
\* lower-cased name contains, and nothing if it contains none; it never returns
\* Thin, ExtraBold, Black or Italic; and a face whose name has a keyword is
\* stored under that keyword's key whatever its posture and weight.
C16_FirstKeywordDecides ==
    /\ (mode = "name" /\ name_style # <<>>) =>
          /\ name_style[1] = FirstKeyword(full_name)
          /\ name_style[1] \notin {<<"Thin">>, <<"ExtraBold">>, <<"Black">>, <<"Italic">>}
    /\ (mode = "new" /\ built # <<>> /\ built[1].kind = "Ok" /\ family # <<>>) =>
          LET n == Len(family)
              key == FirstKeyword(family[n].full_name)
          IN  key # <<>> =>
                 /\ key[1] \in DOMAIN built[1].faces
                 /\ built[1].faces[key[1]].index = n

\* a name written with capitals that holds both "semibold" and "bold" was
\* resolved to SemiBold
C16_Witness ==
    /\ mode = "name" /\ name_style = << <<"SemiBold">> >>
    /\ full_name # to_lowercase(full_name)
    /\ contains(to_lowercase(full_name), kw_bold)
    /\ contains(to_lowercase(full_name), kw_semibold)

\* the buckets below Black, and the landmarks, in order
Buckets ==
    <<"Thin", "ExtraLight", "Light", "Regular", "Medium", "SemiBold", "Bold", "ExtraBold">>
Landmarks ==
    <<Weight.THIN, Weight.EXTRA_LIGHT, Weight.LIGHT, Weight.NORMAL, Weight.MEDIUM,
      Weight.SEMIBOLD, Weight.BOLD, Weight.EXTRA_BOLD, Weight.BLACK>>

\* C17: approximate_font_weight returns bucket i exactly when the weight is at
\* or above landmark i and below landmark i + 1, and Black exactly when the
\* weight is at or above the last landmark.
C17_HalfOpenBuckets ==
    (mode = "weight" /\ weight_style # <<>>) =>
        /\ \A i \in 1..Len(Buckets) :
              weight_style[1] = Buckets[i]
              <=> (Landmarks[i] <= weight /\ weight < Landmarks[i + 1])
        /\ weight_style[1] = "Black" <=> weight >= Landmarks[Len(Landmarks)]

\* the face the claim says is resolved: that of the style asked for if it is
\* present, else the regular one; <<>> when neither is present
ResolvedFace ==
    IF font_style \in DOMAIN faces THEN <<faces[font_style]>>
    ELSE IF "Regular" \in DOMAIN faces THEN <<faces["Regular"]>>
    ELSE <<>>

\* C18: calculate_text_width returns a width exactly when the text is empty or
\* the resolved face is usable; the width of the empty text is 0 whatever the
\* faces; and with neither face present a text that is not empty has no width.
C18_WidthExactlyWhenResolved ==
    (mode = "measure" /\ px_width # <<>>) =>
        /\ px_width[1] # <<>>
           <=> (src = <<>> \/ (ResolvedFace # <<>> /\ ResolvedFace[1].usable))
        /\ src = <<>> => px_width[1] = <<0>>
        /\ (src # <<>> /\ font_style \notin DOMAIN faces /\ "Regular" \notin DOMAIN faces)
           => px_width[1] = <<>>

\* a text was measured with the regular face because the face of the style
\* asked for is absent
C18_Witness ==
    /\ mode = "measure" /\ px_width # <<>> /\ px_width[1] # <<>>
    /\ Len(src) >= 2
    /\ font_style = "Bold" /\ DOMAIN faces = {"Regular"}
    /\ px_width[1][1] >= Len(src)

\* the places in the family of the faces the loop stores under key k
StoredUnder(k) == {i \in 1..Len(family) : style_of_face(family[i]) = <<k>>}

\* C19: FontConfig::new fails exactly when some face does not load; when it
\* succeeds a key holds the last face of the family stored under it and is
\* absent when there is none, no face is held by two keys, and a face with no
\* keyword in its name and a posture that is neither normal nor italic is held
\* by no key.
C19_LastFaceWins ==
    (mode = "new" /\ built # <<>>) =>
        /\ built[1].kind = "Err" <=> \E i \in 1..Len(family) : ~family[i].loads
        /\ built[1].kind = "Ok" =>
              LET fs == built[1].faces
              IN  /\ DOMAIN fs \subseteq FontStyle
                  /\ \A k \in FontStyle :
                        IF StoredUnder(k) = {} THEN k \notin DOMAIN fs
                        ELSE /\ k \in DOMAIN fs
                             /\ \A j \in StoredUnder(k) : j <= fs[k].index
                             /\ fs[k].index \in StoredUnder(k)
                             /\ fs[k].font = family[fs[k].index]
                  /\ \A k1 \in DOMAIN fs : \A k2 \in DOMAIN fs :
                        k1 # k2 => fs[k1].index # fs[k2].index
                  /\ \A i \in 1..Len(family) :
                        (/\ FirstKeyword(family[i].full_name) = <<>>
                         /\ family[i].style \notin {"Normal", "Italic"})
                        => \A k \in DOMAIN fs : fs[k].index # i

\* a family of three faces was loaded: the first and the last are both stored
\* under Bold, the one between them is oblique; Bold holds the last
C19_Witness ==
    /\ mode = "new" /\ built # <<>> /\ built[1].kind = "Ok"
    /\ Len(family) = 3
    /\ StoredUnder("Bold") = {1, 3}
    /\ family[1] # family[3]
    /\ family[2].style = "Oblique"
    /\ DOMAIN built[1].faces = {"Bold"}
    /\ built[1].faces["Bold"].index = 3

\* get_features_summary: the tag=value entries of the feature map
SummaryEntries == {[tag |-> tg, value |-> feature_map[tg].value] : tg \in DOMAIN feature_map}

\* C20: after every add_feature, remove_feature and set_features_from_string
\* call, a failed one included, the list get_features hands to the shaping
\* engine holds exactly the features of the map get_features_summary reports.
C20_FeatureListMatchesMap ==
    mode = "feat" => features = SummaryEntries

\* C21: for a budget of 1 or more, a step of WidthLineIterator that splits a
\* line or the buffer emits a head that is not empty, and an empty line is
\* emitted only by the step that reads an empty physical line.
C21_NoSpuriousEmptyLine ==
    (mode = "char" /\ max_width >= 1 /\ last.op \in {"split_buffer", "read_split",
                                                     "drain", "read_fit"})
    => (out[Len(out)] = <<>> => last.op = "read_fit")

\* C22: for a text of one physical line that is not empty, the lines
\* PixelWidthLineIterator has emitted when it signals the end are the lines
\* wrap_text_by_pixel_width returns for the same text, budget, style and font
\* configuration, with or without a width.
C22_IteratorAgreesWithWrap ==
    (/\ mode = "pixiter" /\ done /\ px_wrap # <<>>
     /\ src # <<>> /\ \A i \in 1..Len(src) : src[i] \notin {"LF", "CR"})
    => out = px_wrap[1]

====
